---- MODULE Spec2Model ----
(***************************************************************************)
(* A model of the `override` decorator, the OverridesMeta metaclass and    *)
(* the metaclass factory create_custom_overrides_meta (src/__init__.py).   *)
(*                                                                         *)
(* Python objects are records.  A class member is                          *)
(*   [type |-> <name of its runtime type>, origin |-> <class it was        *)
(*    defined for>]                                                        *)
(* and an `override` instance is [type |-> "override", func |-> member].   *)
(* A metaclass is [id, base, name, doc]: OverridesMeta has id 0, and the   *)
(* k-th class Meta made by create_custom_overrides_meta has id k and the   *)
(* name of the metaclass it extends as `base`.                             *)
(* A class object is [name, meta, bases, mro, dict]; `dict` is an ordered  *)
(* sequence of [key, value] items (Python dicts iterate in insertion       *)
(* order).  Classes are identified by their index in `classes`; `object`   *)
(* is left implicit: it is the last entry of every MRO and exposes none of *)
(* the attribute names of Names.                                           *)
(***************************************************************************)
EXTENDS Integers, Sequences, FiniteSets, TLC

VARIABLES
    classes,    \* the finalized classes, in creation order
    metas,      \* the metaclasses create_custom_overrides_meta has returned
    wrappers,   \* the live `override` instances, in creation order
    last        \* the last operation: its inputs and its outcome

vars == <<classes, metas, wrappers, last>>

(***************************************************************************)
(* Bounds of the model.                                                    *)
(***************************************************************************)
MaxClasses == 2
MaxHierarchy == 3
MaxAttrs == 3
MaxWrappers == 2
MaxMetas == 2

Names == {"a", "b"}

\* One attribute name, where the order of a body's members plays no part.
OneName == {"a"}

(***************************************************************************)
(* Runtime types.                                                          *)
(***************************************************************************)
function == "function"

method == "method"

MemberTypes == {function, method, "classmethod", "staticmethod", "property"}

\* One member type of each of the three kinds a marked member can have
\* (function, method, property), used where the bodies or the shape of the
\* hierarchy are what matters.
HierarchyTypes == {function, "classmethod", "property"}

OtherTypes == {"int"}

Member(t, o) == [type |-> t, origin |-> o]

isinstance(value, types) == value.type \in types

\* The builtin callable(): functions, bound methods and (since Python 3.10)
\* staticmethod objects have __call__; classmethod, property and plain data
\* do not.
callable(func) == func.type \in {function, method, "staticmethod"}

(***************************************************************************)
(* Outcomes of a call: it returns, or it raises.                           *)
(***************************************************************************)
None == "None"

OverrideError == "OverrideError"

TypeError == "TypeError"

ValueError == "ValueError"

Return(cls) == [exc |-> None, msg |-> <<>>, cls |-> cls]

Raise(exc, msg, cls) == [exc |-> exc, msg |-> msg, cls |-> cls]

\* The outcome r of a call that hands no member to the validating
\* assignment.
unscanned(r) == [exc |-> r.exc, msg |-> r.msg, cls |-> r.cls, validated |-> <<>>]

\* repr() of a str: the text in single quotes.
repr(name) == "'" \o name \o "'"

(***************************************************************************)
(* class override                                                          *)
(***************************************************************************)
\* override.__new__(cls, func)
override_new(func) ==
    IF ~callable(func) /\ ~isinstance(func, {"classmethod", "staticmethod", "property"})
    THEN [exc |-> ValueError, self |-> None]
    ELSE [exc |-> None, self |-> [type |-> "override", func |-> func]]

\* `__slots__ = "__func__",` gives instances one member descriptor, __func__,
\* and the class defines neither __setattr__ nor a read-only property over
\* it: `w.__func__ = v` stores v, whatever v is.
override_set_func(self, v) == [self EXCEPT !.func = v]

(***************************************************************************)
(* Ordered dictionaries.                                                   *)
(***************************************************************************)
InSeq(x, s) == \E i \in 1..Len(s) : s[i] = x

HasKey(d, k) == \E i \in 1..Len(d) : d[i].key = k

Lookup(d, k) == d[CHOOSE i \in 1..Len(d) : d[i].key = k].value

Item(k, v) == [key |-> k, value |-> v]

\* d[k] = v: an existing key keeps its place, a new one goes last.
Store(d, k, v) ==
    IF HasKey(d, k)
    THEN [i \in 1..Len(d) |-> IF d[i].key = k THEN Item(k, v) ELSE d[i]]
    ELSE Append(d, Item(k, v))

(***************************************************************************)
(* type: class creation, attribute lookup and attribute assignment of the  *)
(* host object model, as far as the metaclasses use them.                  *)
(***************************************************************************)
\* The elements of a sequence in order of first occurrence.
RECURSIVE uniq(_)
uniq(s) ==
    IF s = <<>> THEN <<>>
    ELSE LET u == uniq(SubSeq(s, 1, Len(s) - 1))
         IN  IF InSeq(s[Len(s)], u) THEN u ELSE Append(u, s[Len(s)])

\* ", ".join(names) for a non-empty sequence of names.
RECURSIVE join(_)
join(names) ==
    IF Len(names) = 1 THEN names[1] ELSE names[1] \o ", " \o join(Tail(names))

\* The C3 merge of the bases' linearizations and the base list: the MRO,
\* or, when the merge gets stuck, the classes then at the head of the lists
\* that are left.
RECURSIVE c3merge(_)
c3merge(seqs) ==
    LET ne == SelectSeq(seqs, LAMBDA s : s # <<>>)
    IN  IF ne = <<>> THEN [ok |-> TRUE, mro |-> <<>>, heads |-> <<>>]
        ELSE LET good(h) == \A j \in 1..Len(ne) : ~InSeq(h, Tail(ne[j]))
                 cands == SelectSeq(ne, LAMBDA s : good(Head(s)))
             IN  IF cands = <<>>
                 THEN [ok |-> FALSE, mro |-> <<>>,
                       heads |-> uniq([j \in 1..Len(ne) |-> Head(ne[j])])]
                 ELSE LET h == Head(Head(cands))
                          rest == c3merge([j \in 1..Len(ne) |->
                                      IF Head(ne[j]) = h THEN Tail(ne[j]) ELSE ne[j]])
                      IN  [ok |-> rest.ok, mro |-> <<h>> \o rest.mro, heads |-> rest.heads]

\* The k-th class of the program is named Ck.
ClassName(i) == "C" \o ToString(i)

\* class OverridesMeta(type).
OverridesMeta ==
    [id |-> 0, base |-> "type", name |-> "OverridesMeta",
     doc |-> "Metaclass to support usage of the override decorator"]

\* class Meta(metaclass), as the id-th call of the factory makes it, with
\* the __name__ and __doc__ the factory gives it afterwards.
Meta(metaclass, name, doc, id) ==
    [id |-> id, base |-> metaclass,
     name |-> IF name # None THEN name ELSE "Overrides" \o metaclass,
     doc |-> doc]

\* create_custom_overrides_meta(mcls, name=.., doc=..): a new class Meta on
\* every call; `id` is the identity of the new class object.
create_custom_overrides_meta(mcls, name, doc, id) == Meta(mcls, name, doc, id)

\* issubclass(m1, m2) for two of these metaclasses: m2 is m1, or m1 is a
\* class Meta(OverridesMeta) and m2 is OverridesMeta.  Two classes Meta are
\* never related, whatever they extend.
issubclass(m1, m2) ==
    \/ m1 = m2
    \/ (m1.id # 0 /\ m1.base = "OverridesMeta" /\ m2 = OverridesMeta)

\* The metaclass a class statement ends up calling: the most derived of the
\* given metaclass and the metaclasses of the bases, from base j on, or
\* none when two of them are unrelated.
RECURSIVE calculate_metaclass(_, _, _, _)
calculate_metaclass(cs, winner, bases, j) ==
    IF j > Len(bases) THEN [ok |-> TRUE, meta |-> winner]
    ELSE LET t == cs[bases[j]].meta
         IN  IF issubclass(winner, t) THEN calculate_metaclass(cs, winner, bases, j + 1)
             ELSE IF issubclass(t, winner) THEN calculate_metaclass(cs, t, bases, j + 1)
             ELSE [ok |-> FALSE, meta |-> winner]

\* No metaclass, and no class object: what a call that raised before it
\* made a class leaves behind.
NoMeta == [id |-> -1, base |-> None, name |-> None, doc |-> None]

NoClass == [name |-> None, meta |-> NoMeta, bases |-> <<>>, mro |-> <<>>, dict |-> <<>>]

\* The TypeError of two unrelated metaclasses.
metaclass_conflict ==
    unscanned(Raise(TypeError,
        <<"metaclass conflict: the metaclass of a derived class must be a (non-strict) subclass of the metaclasses of all its bases">>,
        NoClass))

\* type.__new__ once the metaclass is settled: the raw class object, or a
\* TypeError for a repeated base or for bases without a consistent MRO.
type_new_impl(cs, mcls, id, bases, classdict) ==
    LET lin == c3merge([j \in 1..Len(bases) |-> cs[bases[j]].mro] \o <<bases>>)
        raw == [name |-> ClassName(id), meta |-> mcls, bases |-> bases,
                mro |-> <<id>> \o lin.mro, dict |-> classdict]
        dups == {i \in 1..Len(bases) : \E j \in (i + 1)..Len(bases) : bases[i] = bases[j]}
    IN  IF dups # {}
        THEN unscanned(Raise(TypeError,
                 <<"duplicate base class " \o
                   cs[bases[CHOOSE i \in dups : \A k \in dups : i <= k]].name>>,
                 NoClass))
        ELSE IF ~lin.ok
        THEN unscanned(Raise(TypeError,
                 <<"Cannot create a consistent method resolution\norder (MRO) for bases " \o
                   join([k \in 1..Len(lin.heads) |-> cs[lin.heads[k]].name])>>,
                 NoClass))
        ELSE unscanned(Return(raw))

\* winner.__new__(winner, name, bases, classdict) for a metaclass of the
\* model: OverridesMeta, or a class Meta of the factory.
RECURSIVE OverridesMeta_new(_, _, _, _, _)
RECURSIVE Meta_new(_, _, _, _, _)
metaclass_call(cs, winner, id, bases, classdict) ==
    IF winner = OverridesMeta THEN OverridesMeta_new(cs, winner, id, bases, classdict)
    ELSE Meta_new(cs, winner, id, bases, classdict)

\* type.__new__ with `w` the most derived metaclass of mcls and the bases':
\* none, and it raises; another than mcls, and it hands the call to that
\* metaclass's __new__ and returns what that returns.
type_new_for(cs, w, mcls, id, bases, classdict) ==
    IF ~w.ok THEN metaclass_conflict
    ELSE IF w.meta # mcls THEN metaclass_call(cs, w.meta, id, bases, classdict)
    ELSE type_new_impl(cs, mcls, id, bases, classdict)

\* type.__new__(mcls, name, bases, classdict).  `validated` lists the
\* members a metaclass the call was handed to has passed to the validating
\* assignment.
type_new(cs, mcls, id, bases, classdict) ==
    type_new_for(cs, calculate_metaclass(cs, mcls, bases, 1), mcls, id, bases, classdict)

\* hasattr(b, name) for a class b: some class of b's MRO has the name.
hasattr(cs, b, name) ==
    \E i \in 1..Len(cs[b].mro) : HasKey(cs[cs[b].mro[i]].dict, name)

\* The entry getattr(b, name) finds: the first one along b's MRO.
mro_lookup(cs, b, name) ==
    LET i == CHOOSE i \in 1..Len(cs[b].mro) :
                 /\ HasKey(cs[cs[b].mro[i]].dict, name)
                 /\ \A j \in 1..(i - 1) : ~HasKey(cs[cs[b].mro[j]].dict, name)
    IN  Lookup(cs[cs[b].mro[i]].dict, name)

\* getattr(b, name) for a class b: the entry passed through the descriptor
\* protocol.  A staticmethod yields its function, a classmethod a method
\* bound to the class; functions, properties and bound methods come back
\* as they are.
getattr(cs, b, name) ==
    LET raw == mro_lookup(cs, b, name)
    IN  IF raw.type = "staticmethod" THEN [raw EXCEPT !.type = function]
        ELSE IF raw.type = "classmethod" THEN [raw EXCEPT !.type = method]
        ELSE raw

\* type.__setattr__ called with the positional arguments `args`.  As an
\* unbound slot wrapper it needs the class first, (cls, name, value); handed
\* (name, value) it finds a str where the class should be.
type_setattr(args) ==
    IF Len(args) # 3
    THEN Raise(TypeError,
               <<"descriptor '__setattr__' requires a 'type' object but received a 'str'">>,
               None)
    ELSE Return([args[1] EXCEPT !.dict = Store(args[1].dict, args[2], args[3])])

(***************************************************************************)
(* OverridesMeta.__setattr__                                               *)
(***************************************************************************)
overriden_of_last_base(cs, cls, name) ==
    LET exposing == SelectSeq(cls.bases, LAMBDA b : hasattr(cs, b, name))
    IN  IF exposing = <<>> THEN [found |-> FALSE, value |-> None]
        ELSE [found |-> TRUE, value |-> getattr(cs, exposing[Len(exposing)], name)]

overriden_of_default_none(cs, cls, name) ==
    LET exposing == SelectSeq(cls.bases, LAMBDA b : hasattr(cs, b, name))
    IN  IF exposing = <<>> THEN [found |-> TRUE, value |-> [type |-> "NoneType"]]
        ELSE [found |-> TRUE, value |-> getattr(cs, Head(exposing), name)]

\* The for/else over cls.__bases__: the attribute of the first base that
\* has one, or nothing found.
overriden_of(cs, cls, name) ==
    LET exposing == SelectSeq(cls.bases, LAMBDA b : hasattr(cs, b, name))
    IN  IF exposing = <<>> THEN [found |-> FALSE, value |-> None]
        ELSE [found |-> TRUE, value |-> getattr(cs, Head(exposing), name)]

kind_of_swapped(func) ==
    IF isinstance(func, {"staticmethod"}) THEN method
    ELSE IF isinstance(func, {"classmethod"}) THEN function
    ELSE func.type

\* kind = function if staticmethod else (method if classmethod else type(...))
kind_of(func) ==
    IF isinstance(func, {"staticmethod"}) THEN function
    ELSE IF isinstance(func, {"classmethod"}) THEN method
    ELSE func.type

missing_message(cls, name) == <<"no base of", cls.name, "has attr", repr(name)>>

mismatch_message_of_kind(overriden, func) ==
    <<"attempt to override a", overriden.type, "object with a", kind_of(func), "object">>

mismatch_message(overriden, func) ==
    <<"attempt to override a", overriden.type, "object with a", func.type, "object">>

install_wrapped(value) == value

\* value = value.__func__
unwrap(value) == value.func

\* The body of `if isinstance(value, override):` and the assignment after it.
validate(cs, cls, name, value) ==
    LET found == overriden_of(cs, cls, name)
    IN  IF ~found.found
        THEN Raise(OverrideError, missing_message(cls, name), cls)
        ELSE IF found.value.type # kind_of(value.func)
        THEN Raise(OverrideError, mismatch_message(found.value, value.func), cls)
        ELSE type_setattr(<<cls, name, unwrap(value)>>)

OverridesMeta_setattr_drops_unmarked(cs, cls, name, value) ==
    IF isinstance(value, {"override"})
    THEN validate(cs, cls, name, value)
    ELSE Return(cls)

OverridesMeta_setattr(cs, cls, name, value) ==
    IF isinstance(value, {"override"})
    THEN validate(cs, cls, name, value)
    ELSE type_setattr(<<cls, name, value>>)

(***************************************************************************)
(* create_custom_overrides_meta(metaclass): class Meta(metaclass)          *)
(***************************************************************************)
\* metaclass.__setattr__ called with the positional arguments `args`, for
\* the metaclass named `metaclass`.  type and ABCMeta have the slot wrapper
\* of type; OverridesMeta has its own function of (cls, name, value), which
\* misses an argument when handed two.
metaclass_setattr(cs, metaclass, args) ==
    IF metaclass = "OverridesMeta"
    THEN IF Len(args) # 3
         THEN Raise(TypeError,
                    <<"OverridesMeta.__setattr__() missing 1 required positional argument: 'value'">>,
                    None)
         ELSE OverridesMeta_setattr(cs, args[1], args[2], args[3])
    ELSE type_setattr(args)

\* The outcome r of a call made on behalf of the class cls: an exception
\* leaves cls as it was.
leaving(cls, r) == IF r.exc = None THEN r ELSE Raise(r.exc, r.msg, cls)

\* Meta.__setattr__: the text of OverridesMeta.__setattr__ again, ending in
\* metaclass.__setattr__(name, value), a call without the class.
Meta_setattr(cs, cls, name, value) ==
    LET call(v) == leaving(cls, metaclass_setattr(cs, cls.meta.base, <<name, v>>))
    IN  IF isinstance(value, {"override"})
        THEN LET exposing == SelectSeq(cls.bases, LAMBDA b : hasattr(cs, b, name))
             IN  IF exposing = <<>>
                 THEN Raise(OverrideError,
                            <<"no base of", cls.name, "has attr", repr(name)>>, cls)
                 ELSE LET overriden == getattr(cs, Head(exposing), name)
                          kind == IF isinstance(value.func, {"staticmethod"}) THEN function
                                  ELSE IF isinstance(value.func, {"classmethod"}) THEN method
                                  ELSE value.func.type
                      IN  IF overriden.type # kind
                          THEN Raise(OverrideError,
                                     <<"attempt to override a", overriden.type,
                                       "object with a", value.func.type, "object">>, cls)
                          ELSE call(value.func)
        ELSE call(value)

\* setattr(cls, key, value): type(cls).__setattr__(cls, key, value).
setattr(cs, cls, key, value) ==
    IF cls.meta = OverridesMeta THEN OverridesMeta_setattr(cs, cls, key, value)
    ELSE Meta_setattr(cs, cls, key, value)

(***************************************************************************)
(* __new__ of both metaclasses                                             *)
(***************************************************************************)
\* One turn of the loop of __new__ for a marked item, setattr(cls, key,
\* value) having ended as r: an exception leaves the loop, and __new__, with
\* the class object as it is then; otherwise the loop goes on after item i.
RECURSIVE scan(_, _, _, _)
scan_step(cs, r, i, key, validated) ==
    IF r.exc # None
    THEN [exc |-> r.exc, msg |-> r.msg, cls |-> r.cls, validated |-> Append(validated, key)]
    ELSE scan(cs, r.cls, i + 1, Append(validated, key))

RECURSIVE scan_no_setattr(_, _, _, _)
scan_no_setattr(cs, cls, i, validated) ==
    [exc |-> None, msg |-> <<>>, cls |-> cls, validated |-> validated]

RECURSIVE scan_rollback(_, _, _, _)
scan_rollback(cs, cls, i, validated) ==
    IF i > Len(cls.dict)
    THEN [exc |-> None, msg |-> <<>>, cls |-> cls, validated |-> validated]
    ELSE LET key == cls.dict[i].key
             value == cls.dict[i].value
         IN  IF isinstance(value, {"override"})
             THEN LET r == setattr(cs, cls, key, value)
                  IN  IF r.exc # None
                      THEN [exc |-> r.exc, msg |-> r.msg, cls |-> r.cls,
                            validated |-> Append(validated, key)]
                      ELSE LET rest == scan_rollback(cs, r.cls, i + 1, Append(validated, key))
                           IN  IF rest.exc # None THEN [rest EXCEPT !.cls = cls] ELSE rest
             ELSE scan_rollback(cs, cls, i + 1, validated)

\* The loop `for key, value in cls.__dict__.items()` from item i on;
\* `validated` lists the keys handed to setattr so far.  An exception
\* leaves the loop, and __new__, with the class object as it is then.
scan(cs, cls, i, validated) ==
    IF i > Len(cls.dict)
    THEN [exc |-> None, msg |-> <<>>, cls |-> cls, validated |-> validated]
    ELSE IF isinstance(cls.dict[i].value, {"override"})
    THEN scan_step(cs, setattr(cs, cls, cls.dict[i].key, cls.dict[i].value),
                   i, cls.dict[i].key, validated)
    ELSE scan(cs, cls, i + 1, validated)

\* The rest of a __new__ after the class object came back as `made`: the
\* loop over its __dict__, and the return.
scan_made(cs, made) ==
    IF made.exc # None THEN made ELSE scan(cs, made.cls, 1, made.validated)

OverridesMeta_new(cs, mcls, id, bases, classdict) ==
    scan_made(cs, type_new(cs, mcls, id, bases, classdict))

\* The rest of ABCMeta.__new__ after type.__new__ returned `made`: the
\* class's __abstractmethods__ is set with an attribute assignment on it.
abc_init(cs, made, id) ==
    IF made.exc # None THEN made
    ELSE [unscanned(setattr(cs, made.cls, "__abstractmethods__", Member("frozenset", id)))
            EXCEPT !.validated = made.validated]

\* ABCMeta.__new__.
ABCMeta_new(cs, mcls, id, bases, classdict) ==
    abc_init(cs, type_new(cs, mcls, id, bases, classdict), id)

\* metaclass.__new__(mcls, name, bases, classdict) for the metaclass the
\* class mcls extends.
metaclass_new(cs, mcls, id, bases, classdict) ==
    CASE mcls.base = "OverridesMeta" -> OverridesMeta_new(cs, mcls, id, bases, classdict)
      [] mcls.base = "ABCMeta" -> ABCMeta_new(cs, mcls, id, bases, classdict)
      [] OTHER -> type_new(cs, mcls, id, bases, classdict)

\* Meta.__new__: metaclass.__new__, then the loop of OverridesMeta.__new__
\* again.
Meta_new(cs, mcls, id, bases, classdict) ==
    scan_made(cs, metaclass_new(cs, mcls, id, bases, classdict))

\* Calling the metaclass a class statement has settled on; with no such
\* metaclass the statement raises the conflict itself.
call_metaclass(cs, w, id, bases, classdict) ==
    IF ~w.ok THEN metaclass_conflict
    ELSE metaclass_call(cs, w.meta, id, bases, classdict)

\* A class statement with metaclass mcls: the most derived metaclass of
\* mcls and the bases' is called, and its __new__ runs.
construct(cs, mcls, id, bases, classdict) ==
    call_metaclass(cs, calculate_metaclass(cs, mcls, bases, 1), id, bases, classdict)

(***************************************************************************)
(* Inputs.                                                                 *)
(***************************************************************************)
\* The members a class body of class `o` can define, bare or decorated
\* with @override.
Bare(o, types) == {Member(t, o) : t \in types}

Marked(o, types) == {override_new(m).self : m \in Bare(o, types)}

Values(o, types) == Bare(o, types) \cup Marked(o, types)

\* Class bodies: up to two definitions, under distinct names, in order, and
\* no more definitions than `room`.
Bodies(o, types, names, room) ==
    {<<>>}
    \cup (IF room < 1 THEN {}
          ELSE {<<Item(k, v)>> : k \in names, v \in Values(o, types)})
    \cup (IF room < 2 THEN {}
          ELSE {<<Item(p[1], v1), Item(p[2], v2)>> :
                  p \in {q \in names \X names : q[1] # q[2]},
                  v1 \in Values(o, types), v2 \in Values(o, types)})

\* Base lists: none (object alone), one class, or two.
BaseLists(n) ==
    {<<>>} \cup {<<b>> : b \in 1..n} \cup {<<b1, b2>> : b1 \in 1..n, b2 \in 1..n}

\* The metaclasses handed to the factory, by name.
BaseHooks == {"type", "OverridesMeta", "ABCMeta"}

\* The keyword arguments of a call of the factory: none, or both.
Keywords == {[name |-> None, doc |-> None], [name |-> "Hook", doc |-> "a hook"]}

RECURSIVE TotalAttrs(_)
TotalAttrs(cs) == IF cs = <<>> THEN 0 ELSE Len(Head(cs).dict) + TotalAttrs(Tail(cs))

(***************************************************************************)
(* The state machine.                                                      *)
(***************************************************************************)
Init ==
    /\ classes = <<>>
    /\ metas = <<>>
    /\ wrappers = <<>>
    /\ last = [op |-> "idle"]

\* The metaclasses a class statement can name: OverridesMeta and those the
\* factory has returned.
Hooks == {OverridesMeta} \cup {metas[i] : i \in 1..Len(metas)}

\* A call of the factory; the program keeps the metaclass it returns.
CreateMeta ==
    /\ last.op = "idle"
    /\ Len(metas) < MaxMetas
    /\ \E mcls \in BaseHooks, kw \in Keywords :
          LET M == create_custom_overrides_meta(mcls, kw.name, kw.doc, Len(metas) + 1)
          IN  /\ metas' = Append(metas, M)
              /\ last' = [op |-> "factory", mcls |-> mcls, name |-> kw.name,
                          doc |-> kw.doc, exc |-> None, meta |-> M]
    /\ UNCHANGED <<classes, wrappers>>

\* The end of a class statement whose metaclass call ended as r: the class
\* it returned is kept, or the exception goes to the caller.
Bind(given, mcls, bases, classdict, r) ==
    /\ classes' = IF r.exc = None THEN Append(classes, r.cls) ELSE classes
    /\ last' = [op |-> "new", given |-> given, mcls |-> mcls, bases |-> bases,
                classdict |-> classdict, exc |-> r.exc, msg |-> r.msg,
                obj |-> r.cls, validated |-> r.validated]

\* The end of the assignment `classes[c].name = value` that ended as r.
Assigned(c, name, value, r) ==
    /\ classes' = IF r.exc = None THEN [classes EXCEPT ![c] = r.cls] ELSE classes
    /\ last' = [op |-> "setattr", cls |-> c, key |-> name, value |-> value,
                exc |-> r.exc, msg |-> r.msg]

\* A class statement with a metaclass of `hooks`; `mcls` of the record is
\* the metaclass the statement settled on and called.
NewClass(hooks, types, names, maxc) ==
    /\ last.op = "idle"
    /\ Len(classes) < maxc
    /\ \E mcls \in hooks, bases \in BaseLists(Len(classes)),
          classdict \in Bodies(Len(classes) + 1, types, names, MaxAttrs - TotalAttrs(classes)) :
          Bind(mcls, calculate_metaclass(classes, mcls, bases, 1).meta, bases, classdict,
               construct(classes, mcls, Len(classes) + 1, bases, classdict))
    /\ UNCHANGED <<metas, wrappers>>

\* An attribute assignment on a finalized class: `cls.name = value`.
SetAttr(types, names) ==
    /\ last.op = "idle"
    /\ \E c \in 1..Len(classes), name \in names : \E value \in Values(c, types) :
          /\ TotalAttrs(classes) + (IF HasKey(classes[c].dict, name) THEN 0 ELSE 1) <= MaxAttrs
          /\ Assigned(c, name, value, setattr(classes, classes[c], name, value))
    /\ UNCHANGED <<metas, wrappers>>

\* The statement is over: the class is bound to its name, the attribute is
\* set, or the caller has caught the exception (as main() does), and the
\* program goes on to its next statement.
Proceed ==
    /\ last.op # "idle"
    /\ last' = [op |-> "idle"]
    /\ UNCHANGED <<classes, metas, wrappers>>

\* Classes of OverridesMeta with members of every type under one name.
Next ==
    \/ NewClass({OverridesMeta}, MemberTypes, OneName, MaxClasses)
    \/ SetAttr(MemberTypes, OneName)
    \/ Proceed

Spec == Init /\ [][Next]_vars

\* Calls of the factory, and classes of OverridesMeta and of the metaclasses
\* the factory has made, with members of every type under one name.
NextFactory ==
    \/ CreateMeta
    \/ NewClass(Hooks, MemberTypes, OneName, MaxClasses)
    \/ SetAttr(MemberTypes, OneName)
    \/ Proceed

SpecFactory == Init /\ [][NextFactory]_vars

\* Classes of OverridesMeta whose bodies define up to two members.
NextBodies ==
    \/ NewClass({OverridesMeta}, HierarchyTypes, Names, MaxClasses)
    \/ SetAttr(HierarchyTypes, Names)
    \/ Proceed

SpecBodies == Init /\ [][NextBodies]_vars

\* Deeper and wider hierarchies of OverridesMeta classes.
NextHierarchy ==
    \/ NewClass({OverridesMeta}, HierarchyTypes, OneName, MaxHierarchy)
    \/ SetAttr(HierarchyTypes, OneName)
    \/ Proceed

SpecHierarchy == Init /\ [][NextHierarchy]_vars

(***************************************************************************)
(* The decorator's instances on their own: override(func) makes one, and   *)
(* client code may assign to its __func__ slot.                            *)
(***************************************************************************)
\* What client code can hand to override() or store in a slot: any member,
\* or plain data.
Objects == {Member(t, 0) : t \in MemberTypes \cup OtherTypes}

Decorate ==
    /\ last.op = "idle"
    /\ Len(wrappers) < MaxWrappers
    /\ \E func \in Objects :
          LET r == override_new(func)
          IN  /\ wrappers' = IF r.exc = None THEN Append(wrappers, r.self) ELSE wrappers
              /\ last' = [op |-> "override", func |-> func, exc |-> r.exc]
    /\ UNCHANGED <<classes, metas>>

AssignFunc ==
    /\ last.op = "idle"
    /\ \E w \in 1..Len(wrappers), v \in Objects :
          /\ wrappers' = [wrappers EXCEPT ![w] = override_set_func(wrappers[w], v)]
          /\ last' = [op |-> "set_func", wrapper |-> w, value |-> v, exc |-> None]
    /\ UNCHANGED <<classes, metas>>

NextWrapper == Decorate \/ AssignFunc \/ Proceed

SpecWrapper == Init /\ [][NextWrapper]_vars

(***************************************************************************)
(* Vocabulary of the properties.                                           *)
(***************************************************************************)
IsMarked(v) == v.type = "override"

\* The classes that existed when the last class statement began.
Pre ==
    IF last.op = "new" /\ last.exc = None
    THEN SubSeq(classes, 1, Len(classes) - 1)
    ELSE classes

\* The host accepts the base list of a class statement.
LegalBases(cs, mcls, bases) == type_new(cs, mcls, Len(cs) + 1, bases, <<>>).exc = None

\* The bases, in declared order, that expose `name`.
Exposing(cs, bases, name) == SelectSeq(bases, LAMBDA b : hasattr(cs, b, name))

\* The Kind of a member by the four variants of the data model, from the
\* type of the member as written in a class body.
Kind4(t) ==
    CASE t \in {function, "staticmethod"} -> "Function"
      [] t = method -> "Bound-Style Method"
      [] t = "classmethod" -> "Class-Bound Method"
      [] t = "property" -> "Property"

\* The Kind of a member by the runtime types the code compares.
Kind3(t) ==
    CASE t \in {function, "staticmethod"} -> "function"
      [] t \in {method, "classmethod"} -> "method"
      [] t = "property" -> "property"

\* A marked item of a class body overrides a member of the same Kind of the
\* nearest base, Kinds taken by four variants or by runtime type.
Matches4(cs, bases, item) ==
    /\ Exposing(cs, bases, item.key) # <<>>
    /\ Kind4(mro_lookup(cs, Head(Exposing(cs, bases, item.key)), item.key).type)
         = Kind4(item.value.func.type)

Matches3(cs, bases, item) ==
    /\ Exposing(cs, bases, item.key) # <<>>
    /\ Kind3(mro_lookup(cs, Head(Exposing(cs, bases, item.key)), item.key).type)
         = Kind3(item.value.func.type)

Least(S) == IF S = {} THEN 0 ELSE CHOOSE i \in S : \A j \in S : i <= j

\* The first marked item of the last class body, in body order, that does
\* not match (0: there is none).
FirstUnmatched4 ==
    Least({i \in 1..Len(last.classdict) :
             /\ IsMarked(last.classdict[i].value)
             /\ ~Matches4(Pre, last.bases, last.classdict[i])})

FirstUnmatched3 ==
    Least({i \in 1..Len(last.classdict) :
             /\ IsMarked(last.classdict[i].value)
             /\ ~Matches3(Pre, last.bases, last.classdict[i])})

\* A class statement through the default hook whose base list is legal.
DefaultNew ==
    /\ last.op = "new"
    /\ last.mcls = OverridesMeta
    /\ LegalBases(Pre, last.mcls, last.bases)

IsMismatch(msg) == Len(msg) = 5 /\ msg[1] = "attempt to override a"

IsMissing(msg) == Len(msg) = 4 /\ msg[1] = "no base of"

\* The last class statement raised and left no class behind.
NotReturned ==
    /\ last.exc # None
    /\ \A c \in 1..Len(classes) : classes[c].name # last.obj.name

\* The keys of the marked items of a body, in body order.
MarkedKeys(d) ==
    LET marked == SelectSeq(d, LAMBDA it : IsMarked(it.value))
    IN  [i \in 1..Len(marked) |-> marked[i].key]

(***************************************************************************)
(* C1.  A class statement through the default hook whose marked members    *)
(* each override a member of the same Kind (of the four variants) exposed  *)
(* by the nearest base succeeds, and the finished class holds, under each  *)
(* marked name, the unwrapped member itself and not the wrapper; unmarked  *)
(* members stay as written.                                                *)
(***************************************************************************)
C1_SameKindInstallsUnwrapped ==
    (/\ DefaultNew
     /\ \A i \in 1..Len(last.classdict) :
            IsMarked(last.classdict[i].value) => Matches4(Pre, last.bases, last.classdict[i]))
    => /\ last.exc = None
       /\ classes = Append(Pre, last.obj)
       /\ Len(last.obj.dict) = Len(last.classdict)
       /\ \A i \in 1..Len(last.classdict) :
            last.obj.dict[i] =
                IF IsMarked(last.classdict[i].value)
                THEN Item(last.classdict[i].key, last.classdict[i].value.func)
                ELSE last.classdict[i]

C1_Witness ==
    /\ DefaultNew
    /\ last.exc = None
    /\ \E i \in 1..Len(last.classdict) :
          /\ IsMarked(last.classdict[i].value)
          /\ last.classdict[i].value.func.type = "classmethod"

(***************************************************************************)
(* C2, as claimed.  With Kinds the four variants Function, Bound-Style     *)
(* Method, Class-Bound Method and Property: when the first marked member   *)
(* that is not a same-Kind override has a base exposing its name (so its   *)
(* Kind differs), the class statement fails with a kind-mismatch           *)
(* OverrideError and no class is returned.                                 *)
(***************************************************************************)
C2_FourKindMismatchFails ==
    (/\ DefaultNew
     /\ FirstUnmatched4 # 0
     /\ Exposing(Pre, last.bases, last.classdict[FirstUnmatched4].key) # <<>>)
    => /\ last.exc = OverrideError
       /\ IsMismatch(last.msg)
       /\ NotReturned

(***************************************************************************)
(* C2, amended.  With Kinds the runtime types the code compares, function  *)
(* (plain functions and staticmethods), method (bound methods and          *)
(* classmethods alike) and property: when the first marked member that is  *)
(* not a same-Kind override has a base exposing its name, the class        *)
(* statement fails with a kind-mismatch OverrideError and no class is      *)
(* returned.                                                               *)
(***************************************************************************)
C2_RuntimeKindMismatchFails ==
    (/\ DefaultNew
     /\ FirstUnmatched3 # 0
     /\ Exposing(Pre, last.bases, last.classdict[FirstUnmatched3].key) # <<>>)
    => /\ last.exc = OverrideError
       /\ IsMismatch(last.msg)
       /\ NotReturned

C2_Witness ==
    /\ DefaultNew
    /\ FirstUnmatched3 # 0
    /\ Exposing(Pre, last.bases, last.classdict[FirstUnmatched3].key) # <<>>
    /\ last.classdict[FirstUnmatched3].value.func.type = "classmethod"
    /\ last.exc = OverrideError

(***************************************************************************)
(* C3.  A class statement whose body marks a name that no immediate base   *)
(* exposes fails with an OverrideError and returns no class; when that     *)
(* member is the first marked member not to pass validation, the error is  *)
(* the missing-base-attribute one, naming the class and the attribute,     *)
(* and not the kind-mismatch one.                                          *)
(***************************************************************************)
C3_MissingBaseAttributeFails ==
    DefaultNew
    => /\ (\E i \in 1..Len(last.classdict) :
              /\ IsMarked(last.classdict[i].value)
              /\ Exposing(Pre, last.bases, last.classdict[i].key) = <<>>)
          => (last.exc = OverrideError /\ NotReturned)
       /\ (/\ FirstUnmatched3 # 0
           /\ Exposing(Pre, last.bases, last.classdict[FirstUnmatched3].key) = <<>>)
          => /\ last.exc = OverrideError
             /\ ~IsMismatch(last.msg)
             /\ last.msg = <<"no base of", last.obj.name, "has attr",
                             "'" \o last.classdict[FirstUnmatched3].key \o "'">>

C3_Witness ==
    /\ DefaultNew
    /\ Len(last.bases) > 0
    /\ FirstUnmatched3 # 0
    /\ Exposing(Pre, last.bases, last.classdict[FirstUnmatched3].key) = <<>>
    /\ IsMissing(last.msg)

(***************************************************************************)
(* C4, as claimed.  A class statement through the hook made by the factory *)
(* ends as the same statement through the default hook does: the same      *)
(* success or the same error, the same members handed to the validating    *)
(* assignment, and on success the same attribute mapping.                  *)
(***************************************************************************)
\* The same classes, had they been built through the hook M.
AsHook(cs, M) == [i \in 1..Len(cs) |-> [cs[i] EXCEPT !.meta = M]]

\* The same classes, had they been built through the default hook.
AsDefault(cs) == AsHook(cs, OverridesMeta)

C4_FactoryHookMatchesDefault ==
    (/\ last.op = "new"
     /\ last.mcls.id # 0
     /\ last.mcls.base \in {"type", "OverridesMeta"}
     /\ LegalBases(Pre, last.mcls, last.bases))
    => LET d == OverridesMeta_new(AsDefault(Pre), OverridesMeta, Len(Pre) + 1,
                                  last.bases, last.classdict)
       IN  /\ last.exc = d.exc
           /\ last.msg = d.msg
           /\ last.validated = d.validated
           /\ last.obj.dict = d.cls.dict

(***************************************************************************)
(* C5.  Each marked member handed to validation is accepted exactly when   *)
(* its Kind is that of the attribute of the first base, in declared order, *)
(* that exposes its name, whatever later bases expose; so a class accepted *)
(* over two bases that expose a marked name with different Kinds is        *)
(* rejected, with a kind mismatch, when the two bases are swapped.         *)
(***************************************************************************)
ItemOf(d, k) == d[CHOOSE i \in 1..Len(d) : d[i].key = k]

Swapped(bases) == <<bases[2], bases[1]>>

\* Both of two bases expose the name, with different Kinds.
Disagree(cs, bases, name) ==
    /\ Len(bases) = 2
    /\ hasattr(cs, bases[1], name)
    /\ hasattr(cs, bases[2], name)
    /\ Kind3(mro_lookup(cs, bases[1], name).type) # Kind3(mro_lookup(cs, bases[2], name).type)

C5_FirstExposingBaseDecides ==
    DefaultNew
    => /\ \A j \in 1..Len(last.validated) :
             (j < Len(last.validated) \/ last.exc = None)
             <=> Matches3(Pre, last.bases, ItemOf(last.classdict, last.validated[j]))
       /\ (/\ last.exc = None
           /\ Len(last.bases) = 2
           /\ LegalBases(Pre, OverridesMeta, Swapped(last.bases))
           /\ \E i \in 1..Len(last.classdict) :
                 /\ IsMarked(last.classdict[i].value)
                 /\ Disagree(Pre, last.bases, last.classdict[i].key))
          => LET r == OverridesMeta_new(Pre, OverridesMeta, Len(Pre) + 1,
                                        Swapped(last.bases), last.classdict)
             IN  r.exc = OverrideError /\ IsMismatch(r.msg)

C5_Witness ==
    /\ DefaultNew
    /\ last.exc = None
    /\ Len(last.bases) = 2
    /\ LegalBases(Pre, OverridesMeta, Swapped(last.bases))
    /\ \E i \in 1..Len(last.classdict) :
          /\ IsMarked(last.classdict[i].value)
          /\ Disagree(Pre, last.bases, last.classdict[i].key)

(***************************************************************************)
(* C6.  Assigning a value that is not an override instance to an attribute *)
(* of a class of the default hook raises nothing and stores that value     *)
(* under that name; the class's other attributes, and every other class,   *)
(* stay as they were.  A class statement whose body marks nothing hands    *)
(* nothing to validation and yields the class type.__new__ makes.          *)
(***************************************************************************)
C6_Step ==
    /\ (/\ last'.op = "setattr"
        /\ ~IsMarked(last'.value)
        /\ classes[last'.cls].meta = OverridesMeta)
       => /\ last'.exc = None
          /\ Len(classes') = Len(classes)
          /\ \A c \in 1..Len(classes) : c # last'.cls => classes'[c] = classes[c]
          /\ LET old == classes[last'.cls]
                 new == classes'[last'.cls]
             IN  /\ new.name = old.name /\ new.meta = old.meta
                 /\ new.bases = old.bases /\ new.mro = old.mro
                 /\ HasKey(new.dict, last'.key)
                 /\ Lookup(new.dict, last'.key) = last'.value
                 /\ Len(new.dict) = Len(old.dict) + (IF HasKey(old.dict, last'.key) THEN 0 ELSE 1)
                 /\ \A i \in 1..Len(old.dict) :
                       old.dict[i].key # last'.key => new.dict[i] = old.dict[i]
    /\ (/\ last'.op = "new"
        /\ last'.mcls = OverridesMeta
        /\ LegalBases(classes, OverridesMeta, last'.bases)
        /\ \A i \in 1..Len(last'.classdict) : ~IsMarked(last'.classdict[i].value))
       => /\ last'.exc = None
          /\ last'.validated = <<>>
          /\ classes' = Append(classes,
                               type_new(classes, OverridesMeta, Len(classes) + 1,
                                        last'.bases, last'.classdict).cls)

C6_UnmarkedPassesThrough == [][C6_Step]_vars

C6_Witness ==
    /\ last.op = "setattr"
    /\ ~IsMarked(last.value)
    /\ classes[last.cls].meta = OverridesMeta
    /\ Len(classes[last.cls].dict) = 2
    /\ Len(classes) = 2

(***************************************************************************)
(* C7.  No finalized class ever holds an override instance as the value    *)
(* of an attribute.  An override instance assigned                         *)
(* to a finalized class is replaced by the member it wraps, or the         *)
(* assignment raises and leaves every class as it was; a class statement   *)
(* that raises leaves the finalized classes as they were.                  *)
(***************************************************************************)
C7_Step ==
    /\ \A c \in 1..Len(classes') : \A i \in 1..Len(classes'[c].dict) :
           ~IsMarked(classes'[c].dict[i].value)
    /\ (last'.op = "setattr" /\ IsMarked(last'.value))
       => \/ /\ last'.exc = None
             /\ Len(classes') = Len(classes)
             /\ \A c \in 1..Len(classes) : c # last'.cls => classes'[c] = classes[c]
             /\ Lookup(classes'[last'.cls].dict, last'.key) = last'.value.func
             /\ \A i \in 1..Len(classes[last'.cls].dict) :
                   classes[last'.cls].dict[i].key # last'.key
                   => classes'[last'.cls].dict[i] = classes[last'.cls].dict[i]
          \/ /\ last'.exc # None
             /\ classes' = classes
    /\ (last'.op = "new" /\ last'.exc # None) => classes' = classes

C7_NoWrapperOnFinalizedClass == [][C7_Step]_vars

C7_Witness ==
    /\ last.op = "setattr"
    /\ IsMarked(last.value)
    /\ last.exc = None
    /\ Len(classes[last.cls].dict) = 2

(***************************************************************************)
(* C8, as claimed.  An override instance keeps wrapping the member it was  *)
(* created around: no step changes the __func__ of an existing instance.   *)
(***************************************************************************)
C8_WrapperImmutable ==
    [][\A w \in 1..Len(wrappers) : wrappers'[w].func = wrappers[w].func]_vars

(***************************************************************************)
(* C9.  A class statement hands the marked members of the body to the      *)
(* validating assignment once each, in body order, up to and including     *)
(* the first that fails.  If one fails, the statement raises its           *)
(* OverrideError and returns no class; on the discarded class object the   *)
(* marked members before it hold their unwrapped members, and the failing  *)
(* member and every marked member after it are still wrapped, never        *)
(* validated.                                                              *)
(***************************************************************************)
C9_ScanStopsAtFirstFailure ==
    DefaultNew
    => LET mk == MarkedKeys(last.classdict)
           n == Len(last.validated)
       IN  /\ n <= Len(mk)
           /\ last.validated = SubSeq(mk, 1, n)
           /\ last.exc = None => n = Len(mk)
           /\ \A j \in 1..n :
                 (j < n \/ last.exc = None)
                 <=> Matches3(Pre, last.bases, ItemOf(last.classdict, last.validated[j]))
           /\ last.exc # None
              => /\ n >= 1
                 /\ last.exc = OverrideError
                 /\ NotReturned
                 /\ Len(last.obj.dict) = Len(last.classdict)
                 /\ \A i \in 1..Len(last.classdict) :
                       last.obj.dict[i] =
                           IF /\ IsMarked(last.classdict[i].value)
                              /\ \E j \in 1..(n - 1) : last.validated[j] = last.classdict[i].key
                           THEN Item(last.classdict[i].key, last.classdict[i].value.func)
                           ELSE last.classdict[i]

C9_Witness ==
    /\ DefaultNew
    /\ last.exc = OverrideError
    /\ Len(last.validated) = 2
    /\ ~IsMarked(last.obj.dict[1].value)
    /\ IsMarked(last.obj.dict[2].value)

(***************************************************************************)
(* C10.  The error of a kind mismatch, from either hook, in a class        *)
(* statement or in a later assignment.                                     *)
(***************************************************************************)
MismatchRaised == last.op \in {"new", "setattr"} /\ last.exc = OverrideError /\ IsMismatch(last.msg)

\* The name, the override instance and the bases of the failed validation.
FailKey == IF last.op = "new" THEN last.validated[Len(last.validated)] ELSE last.key

FailValue == IF last.op = "new" THEN ItemOf(last.classdict, FailKey).value ELSE last.value

FailBases == IF last.op = "new" THEN last.bases ELSE classes[last.cls].bases

FailOverridden == mro_lookup(classes, Head(Exposing(classes, FailBases, FailKey)), FailKey)

(***************************************************************************)
(* C10, as claimed.  The message names the runtime kind of the overridden  *)
(* member and the Kind the new member was classified as (function for a    *)
(* staticmethod, method for a classmethod), and the attribute.             *)
(***************************************************************************)
C10_MessageNamesClassifiedKindAndAttribute ==
    MismatchRaised
    => /\ last.msg[2] = Kind3(FailOverridden.type)
       /\ last.msg[4] = Kind3(FailValue.func.type)
       /\ \E i \in 1..Len(last.msg) : last.msg[i] \in {FailKey, "'" \o FailKey \o "'"}

(***************************************************************************)
(* C10, amended.  The message is "attempt to override a T1 object with a   *)
(* T2 object": T1 the runtime type of the overridden member as the base    *)
(* yields it, T2 the runtime type of the wrapped member itself             *)
(* (staticmethod, classmethod for the two wrappers, not the Kind they      *)
(* classify as); the attribute is not named.  A hook made by the factory   *)
(* from type or from OverridesMeta raises the same error for the same      *)
(* operation (when the failing member is the first marked member handed    *)
(* to validation).                                                         *)
(***************************************************************************)
\* What the last operation raises when the classes and the operation go
\* through a hook the factory makes from the metaclass h.
ThroughFactory(h) ==
    LET M == create_custom_overrides_meta(h, None, None, 1)
        cs == AsHook(Pre, M)
        r == IF last.op = "new"
             THEN Meta_new(cs, M, Len(Pre) + 1, last.bases, last.classdict)
             ELSE Meta_setattr(cs, cs[last.cls], last.key, last.value)
    IN  <<r.exc, r.msg>>

C10_MessageNamesRuntimeTypes ==
    MismatchRaised
    => /\ last.msg = <<"attempt to override a", Kind3(FailOverridden.type),
                       "object with a", FailValue.func.type, "object">>
       /\ \A i \in 1..Len(last.msg) : last.msg[i] \notin {FailKey, "'" \o FailKey \o "'"}
       /\ (last.op = "setattr" \/ Len(last.validated) = 1)
          => \A h \in {"type", "OverridesMeta"} :
                ThroughFactory(h) = <<OverrideError, last.msg>>

C10_Witness ==
    /\ MismatchRaised
    /\ last.op = "new"
    /\ last.mcls = OverridesMeta
    /\ FailValue.func.type = "staticmethod"
    /\ FailOverridden.type = "classmethod"

====
